---- MODULE Spec2Model ----
(***************************************************************************)
(* Model of the OCR4all AJAX client (ocr4all_ajax_utils.py).               *)
(*                                                                         *)
(* One call of one client function is modelled per behaviour: a Call*      *)
(* action picks the function and its arguments, the following actions are  *)
(* the HTTP requests, sleeps and tests of the function body in program     *)
(* order, and the call ends with `outcome` set to "return" or to the name  *)
(* of the exception that leaves the function.  The remote server is the    *)
(* environment: every request draws its response from a small set.         *)
(***************************************************************************)
EXTENDS Integers, Sequences, FiniteSets, TLC

VARIABLES
    op,         \* the client function being called ("none" before the call)
    pc,         \* position inside the function body
    r,          \* the local variable r: the last response stored by the body
    cur,        \* local cur of the polling loops (trimmed status text)
    last,       \* local last of ocr4all_processflow_wait
    attempt,    \* loop variable of ocr4all_processflow_execute_json
    retries,    \* argument retries
    timeout_s,  \* argument timeout_s of ocr4all_processflow_wait
    t0,         \* local t0 of ocr4all_processflow_wait
    now,        \* the wall clock, time.time(), in seconds
    log,        \* history: every request and sleep of the call, in order
    logger,     \* history: the records handed to the logger
    outcome,    \* "none" while running, "return", or the exception raised
    errmsg,     \* which raise statement produced the exception
    result      \* the value returned

vars == <<op, pc, r, cur, last, attempt, retries, timeout_s, t0, now,
          log, logger, outcome, errmsg, result>>

----------------------------------------------------------------------------
(* Bounds of the model *)

MaxRetries == 3
MaxTimeout == 2
MaxDelay == 1
MaxPages == 2

----------------------------------------------------------------------------
(* Text: a Python str is a sequence of characters *)

Whitespace == {" ", "\n"}

TxtEmpty == <<>>
TxtTrue == <<"t", "r", "u", "e">>
TxtTruePadded == <<" ", "t", "r", "u", "e", "\n">>
TxtFalse == <<"f", "a", "l", "s", "e">>
TxtBlank == <<" ", "\n">>
TxtStepA == <<"a">>
TxtStepB == <<" ", "b", "\n">>

RECURSIVE LStrip(_)
LStrip(s) ==
    IF s # <<>> /\ Head(s) \in Whitespace THEN LStrip(Tail(s)) ELSE s

RECURSIVE RStrip(_)
RStrip(s) ==
    IF s # <<>> /\ s[Len(s)] \in Whitespace
    THEN RStrip(SubSeq(s, 1, Len(s) - 1))
    ELSE s

(* str.strip() *)
Strip(s) == RStrip(LStrip(s))

----------------------------------------------------------------------------
(* Responses of the remote server *)

Statuses == {200, 204, 404, 500}

TransportErrors == {"ConnectionError", "ConnectTimeout", "ReadTimeout"}

Http(status, body) == [kind |-> "http", status |-> status, text |-> body]
Failed(kind) == [kind |-> kind, status |-> 0, text |-> <<>>]

NoResponse == Failed("none")

Responses(bodies) ==
    {Http(s, b) : s \in Statuses, b \in bodies}
        \cup {Failed(k) : k \in TransportErrors}

RaiseForStatusUnchecked(resp) ==
    IF resp.kind # "http" THEN resp.kind ELSE "none"

(* session.get / session.post raise the transport error; *)
(* Response.raise_for_status raises HTTPError for a 4xx or 5xx status *)
RaiseForStatus(resp) ==
    IF resp.kind # "http" THEN resp.kind
    ELSE IF resp.status >= 400 /\ resp.status < 600 THEN "HTTPError"
    ELSE "none"

(* what session.get / session.post alone raise *)
RaiseTransport(resp) == IF resp.kind # "http" THEN resp.kind ELSE "none"

Event(ep, resp) == [ep |-> ep, resp |-> resp]

Issued(ep) == {i \in 1..Len(log) : log[i].ep = ep}

----------------------------------------------------------------------------
Init ==
    /\ op = "none"
    /\ pc = "idle"
    /\ r = NoResponse
    /\ cur = <<>>
    /\ last = <<"None">>
    /\ attempt = 0
    /\ retries = 0
    /\ timeout_s = 0
    /\ t0 = 0
    /\ now = 0
    /\ log = <<>>
    /\ logger = <<>>
    /\ outcome = "none"
    /\ errmsg = "none"
    /\ result = <<>>

(* leave the function by an exception *)
Raise(exc, msg) ==
    /\ pc' = "done"
    /\ outcome' = exc
    /\ errmsg' = msg

(* leave the function by return *)
Return(value) ==
    /\ pc' = "done"
    /\ outcome' = "return"
    /\ errmsg' = "none"
    /\ result' = value

Goto(label) ==
    /\ pc' = label
    /\ UNCHANGED <<outcome, errmsg>>

----------------------------------------------------------------------------
(* ocr4all_open_project *)

OpenBodies == {TxtTrue, TxtTruePadded, TxtFalse, TxtEmpty}

IsTrueExact(resp) == resp.text = TxtTrue

IsTrueAlways(resp) == TRUE

(* r.text.strip() != "true" is the failure test of each step *)
IsTrue(resp) == Strip(resp.text) = TxtTrue

CallOpenProject ==
    /\ pc = "idle"
    /\ op' = "open_project"
    /\ pc' = "root"
    /\ UNCHANGED <<r, cur, last, attempt, retries, timeout_s, t0, now,
                   log, logger, outcome, errmsg, result>>

(* session.get(f"{base_url}/").raise_for_status() *)
OpenRoot ==
    /\ op = "open_project" /\ pc = "root"
    /\ \E resp \in Responses({TxtEmpty}) :
        /\ log' = Append(log, Event("root", resp))
        /\ IF RaiseForStatus(resp) # "none"
           THEN Raise(RaiseForStatus(resp), "root")
           ELSE Goto("checkDir")
    /\ UNCHANGED <<op, r, cur, last, attempt, retries, timeout_s, t0, now,
                   logger, result>>

(* 1) checkDir *)
OpenCheckDir ==
    /\ op = "open_project" /\ pc = "checkDir"
    /\ \E resp \in Responses(OpenBodies) :
        /\ log' = Append(log, Event("checkDir", resp))
        /\ IF RaiseTransport(resp) # "none"
           THEN /\ Raise(RaiseTransport(resp), "checkDir")
                /\ r' = r
           ELSE /\ r' = resp
                /\ IF RaiseForStatus(resp) # "none"
                   THEN Raise(RaiseForStatus(resp), "checkDir")
                   ELSE IF ~IsTrue(resp)
                   THEN Raise("RuntimeError", "checkDir")
                   ELSE Goto("validate")
    /\ UNCHANGED <<op, cur, last, attempt, retries, timeout_s, t0, now,
                   logger, result>>

(* 2) validate; a response other than "true" leads to the invalidation *)
OpenValidate ==
    /\ op = "open_project" /\ pc = "validate"
    /\ \E resp \in Responses(OpenBodies) :
        /\ log' = Append(log, Event("validate", resp))
        /\ IF RaiseTransport(resp) # "none"
           THEN /\ Raise(RaiseTransport(resp), "validate")
                /\ r' = r
           ELSE /\ r' = resp
                /\ IF RaiseForStatus(resp) # "none"
                   THEN Raise(RaiseForStatus(resp), "validate")
                   ELSE IF ~IsTrue(resp)
                   THEN Goto("invalidateSession")
                   ELSE Goto("validateProject")
    /\ UNCHANGED <<op, cur, last, attempt, retries, timeout_s, t0, now,
                   logger, result>>

OpenInvalidateSessionContinues ==
    /\ op = "open_project" /\ pc = "invalidateSession"
    /\ \E resp \in Responses({TxtEmpty}) :
        /\ log' = Append(log, Event("invalidateSession", resp))
        /\ IF RaiseTransport(resp) # "none"
           THEN Raise(RaiseTransport(resp), "invalidateSession")
           ELSE Goto("validateProject")
    /\ UNCHANGED <<op, r, cur, last, attempt, retries, timeout_s, t0, now,
                   logger, result>>

(* session.get(.../invalidateSession) without raise_for_status, then raise *)
OpenInvalidateSession ==
    /\ op = "open_project" /\ pc = "invalidateSession"
    /\ \E resp \in Responses({TxtEmpty}) :
        /\ log' = Append(log, Event("invalidateSession", resp))
        /\ IF RaiseTransport(resp) # "none"
           THEN Raise(RaiseTransport(resp), "invalidateSession")
           ELSE Raise("RuntimeError", "validate")
    /\ UNCHANGED <<op, r, cur, last, attempt, retries, timeout_s, t0, now,
                   logger, result>>

(* 3) validateProject *)
OpenValidateProject ==
    /\ op = "open_project" /\ pc = "validateProject"
    /\ \E resp \in Responses(OpenBodies) :
        /\ log' = Append(log, Event("validateProject", resp))
        /\ IF RaiseTransport(resp) # "none"
           THEN /\ Raise(RaiseTransport(resp), "validateProject")
                /\ r' = r
                /\ result' = result
           ELSE /\ r' = resp
                /\ IF RaiseForStatus(resp) # "none"
                   THEN Raise(RaiseForStatus(resp), "validateProject")
                        /\ result' = result
                   ELSE IF ~IsTrue(resp)
                   THEN Raise("RuntimeError", "validateProject")
                        /\ result' = result
                   ELSE Return(<<"None">>)
    /\ UNCHANGED <<op, cur, last, attempt, retries, timeout_s, t0, now,
                   logger>>

----------------------------------------------------------------------------
(* Properties of ocr4all_open_project *)

OpenDone == op = "open_project" /\ pc = "done"

(* the request to ep was answered with exactly the text "true" *)
ReturnedTrue(ep) ==
    \E i \in Issued(ep) :
        log[i].resp.kind = "http" /\ log[i].resp.text = TxtTrue

(* the request to ep was answered with a status below 400 and a body that *)
(* is "true" once leading and trailing whitespace is removed *)
AnsweredTrue(ep) ==
    \E i \in Issued(ep) :
        /\ log[i].resp.kind = "http"
        /\ log[i].resp.status < 400
        /\ RStrip(LStrip(log[i].resp.text)) = TxtTrue

InOrder(a, b) == \A i \in Issued(a), j \in Issued(b) : i < j

(* C1 as stated: the call returns normally if and only if checkDir, *)
(* validate and validateProject, in that order, each return the text *)
(* "true"; in every other case it raises. *)
C1_Original ==
    OpenDone =>
        /\ outcome # "none"
        /\ outcome = "return" <=>
                /\ ReturnedTrue("checkDir")
                /\ ReturnedTrue("validate")
                /\ ReturnedTrue("validateProject")
                /\ InOrder("checkDir", "validate")
                /\ InOrder("validate", "validateProject")

(* C1 amended: the call returns normally if and only if checkDir, validate *)
(* and validateProject, in that order, are each answered with a non-error *)
(* HTTP status and a body whose whitespace-trimmed text is "true"; in *)
(* every other case it raises. *)
C1_OpenSucceedsIffAllTrue ==
    OpenDone =>
        /\ outcome # "none"
        /\ outcome = "return" <=>
                /\ AnsweredTrue("checkDir")
                /\ AnsweredTrue("validate")
                /\ AnsweredTrue("validateProject")
                /\ InOrder("checkDir", "validate")
                /\ InOrder("validate", "validateProject")

(* the call returned although a body carried surrounding whitespace *)
C1_Witness ==
    /\ OpenDone
    /\ outcome = "return"
    /\ \E i \in Issued("validate") : log[i].resp.text = TxtTruePadded

(* C2 as stated: validate is requested only when checkDir returned "true", *)
(* validateProject only when checkDir and validate returned "true". *)
C2_Original ==
    op = "open_project" =>
        /\ Issued("validate") # {} => ReturnedTrue("checkDir")
        /\ Issued("validateProject") # {} =>
                ReturnedTrue("checkDir") /\ ReturnedTrue("validate")

(* C2 amended: a step is requested only when every prior step was *)
(* answered with a non-error status and a body that is "true" after *)
(* trimming; once a step is answered otherwise no later step is requested. *)
C2_StepsOnlyAfterTrue ==
    op = "open_project" =>
        /\ Issued("validate") # {} => AnsweredTrue("checkDir")
        /\ Issued("validateProject") # {} =>
                AnsweredTrue("checkDir") /\ AnsweredTrue("validate")
        /\ \A ep \in {"root", "checkDir", "validate", "validateProject"} :
                Cardinality(Issued(ep)) <= 1

(* checkDir answered "false": the call is over and nothing else was asked *)
C2_Witness ==
    /\ OpenDone
    /\ \E i \in Issued("checkDir") :
            log[i].resp.kind = "http" /\ log[i].resp.status = 200
                /\ log[i].resp.text = TxtFalse
    /\ Issued("validate") = {}
    /\ Issued("validateProject") = {}
    /\ outcome = "RuntimeError"

(* step 2 failed: validate was answered, with a non-error status, by a *)
(* body other than "true" *)
Step2Failed ==
    \E i \in Issued("validate") :
        /\ log[i].resp.kind = "http"
        /\ log[i].resp.status < 400
        /\ RStrip(LStrip(log[i].resp.text)) # TxtTrue

(* C3: whenever step 2 (validate) fails, invalidateSession is requested *)
(* before the failure is reported, and the caller still receives the *)
(* failure of step 2. *)
C3_InvalidateThenStep2Failure ==
    (OpenDone /\ Step2Failed) =>
        /\ Issued("invalidateSession") # {}
        /\ outcome = "RuntimeError"
        /\ errmsg = "validate"

----------------------------------------------------------------------------
(* ocr4all_processflow_current *)

CurrentBodies == {TxtEmpty, TxtBlank, TxtStepA, TxtStepB}

PollStatuses == {200, 500}

PollResponses ==
    {Http(s, b) : s \in PollStatuses, b \in CurrentBodies}
        \cup {Failed(k) : k \in TransportErrors}

CurrentRaisesNothing(resp) == "none"

(* the exception ocr4all_processflow_current leaves with, or "none" *)
CurrentRaises(resp) == RaiseForStatus(resp)

(* return r.text.strip() *)
CurrentValue(resp) == Strip(resp.text)

----------------------------------------------------------------------------
(* ocr4all_processflow_execute_json *)

ExecuteBodies == {TxtEmpty, TxtStepA}

BusyNever(c) == FALSE

BusyInverted(c) == c = <<>>

(* if cur != "": *)
Busy(c) == c # <<>>

Is200Never(resp) == FALSE

Is2xx(resp) == resp.status >= 200 /\ resp.status < 300

(* if r.status_code == 200: *)
Is200(resp) == resp.status = 200

NextAttemptOneMore(a, n) ==
    IF a + 1 <= n + 1
    THEN attempt' = a + 1 /\ Goto("ej_poll")
    ELSE attempt' = a /\ Goto("ej_exhausted")

(* for attempt in range(1, retries + 1): the next iteration, or the *)
(* statement after the loop *)
NextAttempt(a, n) ==
    IF a + 1 <= n
    THEN attempt' = a + 1 /\ Goto("ej_poll")
    ELSE attempt' = a /\ Goto("ej_exhausted")

CallExecuteJson ==
    /\ pc = "idle"
    /\ op' = "execute_json"
    /\ \E n \in 0..MaxRetries : retries' = n
    /\ NextAttempt(0, retries')
    /\ UNCHANGED <<r, cur, last, timeout_s, t0, now, log, logger, result>>

(* cur = ocr4all_processflow_current(session, base_url) *)
ExecJsonPoll ==
    /\ op = "execute_json" /\ pc = "ej_poll"
    /\ \E resp \in PollResponses :
        /\ log' = Append(log, Event("current", resp))
        /\ IF CurrentRaises(resp) # "none"
           THEN /\ Raise(CurrentRaises(resp), "current")
                /\ cur' = cur
           ELSE /\ cur' = CurrentValue(resp)
                /\ IF Busy(cur') THEN Goto("ej_sleep") ELSE Goto("ej_post")
    /\ UNCHANGED <<op, r, last, attempt, retries, timeout_s, t0, now,
                   logger, result>>

(* r = session.post(url, ...), the logging and the test of the status *)
ExecJsonPost ==
    /\ op = "execute_json" /\ pc = "ej_post"
    /\ \E resp \in Responses(ExecuteBodies) :
        /\ log' = Append(log, Event("execute", resp))
        /\ IF RaiseTransport(resp) # "none"
           THEN /\ Raise(RaiseTransport(resp), "execute")
                /\ UNCHANGED <<r, logger, result>>
           ELSE /\ r' = resp
                /\ IF Is200(resp)
                   THEN /\ Return(<<"None">>)
                        /\ logger' = Append(logger, <<"info", attempt>>)
                   ELSE /\ Goto("ej_sleep")
                        /\ result' = result
                        /\ logger' =
                             logger \o <<(<<"info", attempt>>),
                                         (<<"error", attempt>>)>>
                               \o (IF resp.text # <<>>
                                   THEN <<(<<"error", attempt>>)>>
                                   ELSE <<>>)
    /\ UNCHANGED <<op, cur, last, attempt, retries, timeout_s, t0, now>>

(* time.sleep(retry_sleep_s), after a busy poll and after a failed POST, *)
(* then the next iteration of the loop *)
ExecJsonSleep ==
    /\ op = "execute_json" /\ pc = "ej_sleep"
    /\ log' = Append(log, Event("sleep", NoResponse))
    /\ NextAttempt(attempt, retries)
    /\ UNCHANGED <<op, r, cur, last, retries, timeout_s, t0, now,
                   logger, result>>

(* raise RuntimeError("processFlow/execute failed after retries") *)
ExecJsonExhausted ==
    /\ op = "execute_json" /\ pc = "ej_exhausted"
    /\ Raise("RuntimeError", "retries")
    /\ UNCHANGED <<op, r, cur, last, attempt, retries, timeout_s, t0, now,
                   log, logger, result>>

----------------------------------------------------------------------------
(* Properties of ocr4all_processflow_execute_json *)

ExecJsonDone == op = "execute_json" /\ pc = "done"

(* the poll logged at i was answered, and reported the status busy / idle *)
PollAnswered(i) ==
    /\ log[i].ep = "current"
    /\ log[i].resp.kind = "http"
    /\ log[i].resp.status < 400

BusyPoll(i) == PollAnswered(i) /\ RStrip(LStrip(log[i].resp.text)) # <<>>

IdlePoll(i) == PollAnswered(i) /\ RStrip(LStrip(log[i].resp.text)) = <<>>

AllPollsBusy == \A i \in Issued("current") : BusyPoll(i)

(* C4: if every status poll reports busy, the execute POST is never *)
(* issued, and the call ends, after `retries` polls, by raising the *)
(* RuntimeError of the exhausted retries. *)
C4_Safety ==
    (op = "execute_json" /\ AllPollsBusy) =>
        /\ Issued("execute") = {}
        /\ Cardinality(Issued("current")) <= retries
        /\ pc = "done" =>
              /\ outcome = "RuntimeError"
              /\ errmsg = "retries"
              /\ Cardinality(Issued("current")) = retries

C4_AlwaysBusyNeverPosts ==
    /\ []C4_Safety
    /\ (op = "execute_json") ~> (pc = "done")

(* three busy polls, then the error *)
C4_Witness ==
    /\ ExecJsonDone
    /\ AllPollsBusy
    /\ Cardinality(Issued("current")) = MaxRetries
    /\ outcome = "RuntimeError"

FirstIdle(i) == IdlePoll(i) /\ \A j \in Issued("current") : j < i => BusyPoll(j)

(* C5 as stated: busy on polls 1..N-1 and idle on the Nth poll: exactly *)
(* one execute POST is issued thereafter, whatever its outcome. *)
C5_Original ==
    (ExecJsonDone /\ \E i \in Issued("current") : FirstIdle(i)) =>
        Cardinality(Issued("execute")) = 1

(* C5 amended: every idle poll is directly followed by exactly one POST, *)
(* before any other request; a POST answered 200 or failing in transport *)
(* ends the call, so that POST is then the only one after its poll; a POST *)
(* answered with another status is followed, while attempts remain, by a *)
(* new poll and, if that is idle, by another POST. *)
C5_OnePostPerIdlePoll ==
    op = "execute_json" =>
        /\ \A i \in Issued("current") :
              IdlePoll(i) =>
                  IF i = Len(log) THEN pc = "ej_post"
                  ELSE log[i + 1].ep = "execute"
        /\ \A i \in Issued("execute") :
              /\ i > 1 /\ IdlePoll(i - 1)
              /\ (log[i].resp.kind # "http" \/ log[i].resp.status = 200)
                    => (i = Len(log) /\ pc = "done")
        /\ Cardinality(Issued("execute")) =
              Cardinality({i \in Issued("current") : IdlePoll(i)})
                 - (IF pc = "ej_post" THEN 1 ELSE 0)
        /\ Cardinality(Issued("execute")) + Cardinality(Issued("current"))
              <= 2 * retries

(* busy, then idle, and the POST was answered 200 *)
C5_Witness ==
    /\ ExecJsonDone
    /\ Len(log) >= 4
    /\ BusyPoll(1)
    /\ \E i \in Issued("current") : FirstIdle(i) /\ i > 1
    /\ log[Len(log)].ep = "execute"
    /\ log[Len(log)].resp.status = 200
    /\ outcome = "return"

(* no request of the call raised *)
NoRequestRaised ==
    \A i \in 1..Len(log) :
        log[i].ep # "sleep" =>
            /\ log[i].resp.kind = "http"
            /\ log[i].ep = "current" => log[i].resp.status < 400

(* C6: the call returns normally only if one of its execute POSTs was *)
(* answered with HTTP 200; when all `retries` attempts pass without a 200 *)
(* (with retries = 0 no request is issued at all) it raises RuntimeError. *)
C6_ExhaustionIsHardFailure ==
    ExecJsonDone =>
        /\ outcome # "none"
        /\ outcome = "return" =>
              \E i \in Issued("execute") :
                  log[i].resp.kind = "http" /\ log[i].resp.status = 200
        /\ (NoRequestRaised /\ \A i \in Issued("execute") :
                                   log[i].resp.status # 200)
              => /\ outcome = "RuntimeError"
                 /\ errmsg = "retries"
                 /\ attempt = retries
        /\ retries = 0 => log = <<>> /\ outcome = "RuntimeError"

(* every attempt posted and none was answered 200 *)
C6_Witness ==
    /\ ExecJsonDone
    /\ retries = MaxRetries
    /\ Cardinality(Issued("execute")) = MaxRetries
    /\ \E i \in Issued("execute") : log[i].resp.status = 204
    /\ outcome = "RuntimeError"

----------------------------------------------------------------------------
(* ocr4all_processflow_wait *)

TimedOutAtLimit(elapsed, limit) == elapsed >= limit

ChangedAlways(c, l) == TRUE

(* if cur != last: *)
Changed(c, l) == c # l

(* if time.time() - t0 > timeout_s: *)
TimedOut(elapsed, limit) == elapsed > limit

WaitStepTimeoutFirst(c, elapsed, limit) ==
    IF TimedOut(elapsed, limit) THEN "raise"
    ELSE IF c = <<>> THEN "return"
    ELSE "sleep"

(* the two tests that follow the poll, in program order *)
WaitStep(c, elapsed, limit) ==
    IF c = <<>> THEN "return"
    ELSE IF TimedOut(elapsed, limit) THEN "raise"
    ELSE "sleep"

SleepFrozen(t) == t

(* the clock after time.sleep(1) *)
SleepAfter(t) == t + 1

CallWaitChecksFirst ==
    /\ pc = "idle"
    /\ op' = "wait"
    /\ \E t \in -1..MaxTimeout :
          /\ timeout_s' = t
          /\ IF TimedOut(0, t)
             THEN Raise("TimeoutError", "wait")
             ELSE Goto("w_poll")
    /\ t0' = now
    /\ last' = <<"None">>
    /\ UNCHANGED <<r, cur, attempt, retries, now, log, logger, result>>

(* t0 = time.time(); last = None *)
CallWait ==
    /\ pc = "idle"
    /\ op' = "wait"
    /\ \E t \in -1..MaxTimeout : timeout_s' = t
    /\ t0' = now
    /\ last' = <<"None">>
    /\ Goto("w_poll")
    /\ UNCHANGED <<r, cur, attempt, retries, now, log, logger, result>>

(* one iteration of the loop up to the sleep: the poll, which takes d *)
(* seconds, the logging of a changed status and the two tests *)
WaitPoll ==
    /\ op = "wait" /\ pc = "w_poll"
    /\ \E resp \in PollResponses, d \in 0..MaxDelay :
        /\ now' = now + d
        /\ log' = Append(log, Event("current", resp))
        /\ IF CurrentRaises(resp) # "none"
           THEN /\ Raise(CurrentRaises(resp), "current")
                /\ UNCHANGED <<cur, last, logger, result>>
           ELSE /\ cur' = CurrentValue(resp)
                /\ IF Changed(cur', last)
                   THEN /\ logger' = Append(logger, <<"info", cur'>>)
                        /\ last' = cur'
                   ELSE UNCHANGED <<logger, last>>
                /\ CASE WaitStep(cur', now' - t0, timeout_s) = "return" ->
                            Return(<<"None">>)
                     [] WaitStep(cur', now' - t0, timeout_s) = "raise" ->
                            Raise("TimeoutError", "wait") /\ result' = result
                     [] OTHER ->
                            Goto("w_sleep") /\ result' = result
    /\ UNCHANGED <<op, r, attempt, retries, timeout_s, t0>>

(* time.sleep(1) *)
WaitSleep ==
    /\ op = "wait" /\ pc = "w_sleep"
    /\ now' = SleepAfter(now)
    /\ log' = Append(log, Event("sleep", NoResponse))
    /\ Goto("w_poll")
    /\ UNCHANGED <<op, r, cur, last, attempt, retries, timeout_s, t0,
                   logger, result>>

----------------------------------------------------------------------------
(* Properties of ocr4all_processflow_wait *)

WaitDone == op = "wait" /\ pc = "done"

(* C7: the call returns normally as soon as a status poll returns the *)
(* empty string: the first idle poll is the last event of the call, no *)
(* poll and no sleep follows it, and the call has returned. *)
C7_WaitReturnsAtFirstIdle ==
    op = "wait" =>
        /\ \A i \in Issued("current") :
              IdlePoll(i) =>
                  /\ i = Len(log)
                  /\ pc = "done"
                  /\ outcome = "return"
        /\ outcome = "return" => Len(log) > 0 /\ IdlePoll(Len(log))

(* the call returned at an idle poll that came after the limit had passed *)
C7_Witness ==
    /\ WaitDone
    /\ outcome = "return"
    /\ Len(log) >= 3
    /\ IdlePoll(Len(log))
    /\ now - t0 > timeout_s

(* C8: at the test that follows a poll with non-empty status the call *)
(* raises the timeout error when the time elapsed since its start exceeds *)
(* timeout_s, every poll so far having returned non-empty status; it *)
(* never raises the timeout error while the elapsed time is at most *)
(* timeout_s. *)
C8_TimeoutOnlyAfterLimit ==
    op = "wait" =>
        /\ outcome = "TimeoutError" =>
              /\ now - t0 > timeout_s
              /\ AllPollsBusy
              /\ Len(log) > 0 /\ BusyPoll(Len(log))
        /\ pc = "w_sleep" => now - t0 <= timeout_s
        /\ (pc = "done" /\ Len(log) > 0 /\ BusyPoll(Len(log)))
              => (outcome = "TimeoutError" /\ now - t0 > timeout_s)

(* polls at elapsed times within the limit, then the timeout error *)
C8_Witness ==
    /\ WaitDone
    /\ outcome = "TimeoutError"
    /\ timeout_s = MaxTimeout
    /\ now - t0 = timeout_s + 1
    /\ Cardinality(Issued("current")) >= 3

----------------------------------------------------------------------------
(* ocr4all_convert_project_files *)

ConvertBodies == {TxtEmpty, TxtStepA, TxtStepB}

ToleratedAnyTimeout(exc) == exc \in {"ReadTimeout", "ConnectTimeout"}

(* except requests.exceptions.ReadTimeout: *)
Tolerated(exc) == exc = "ReadTimeout"

CallConvert ==
    /\ pc = "idle"
    /\ op' = "convert"
    /\ Goto("cv_post")
    /\ UNCHANGED <<r, cur, last, attempt, retries, timeout_s, t0, now,
                   log, logger, result>>

(* the try block and its handler *)
ConvertPost ==
    /\ op = "convert" /\ pc = "cv_post"
    /\ \E resp \in Responses(ConvertBodies) :
        /\ log' = Append(log, Event("convertProjectFiles", resp))
        /\ r' = IF RaiseTransport(resp) # "none" THEN r ELSE resp
        /\ IF RaiseForStatus(resp) = "none"
           THEN Return(resp.text) /\ logger' = logger
           ELSE IF Tolerated(RaiseForStatus(resp))
           THEN Return(<<>>) /\ logger' = Append(logger, <<"warning">>)
           ELSE /\ Raise(RaiseForStatus(resp), "convertProjectFiles")
                /\ UNCHANGED <<logger, result>>
    /\ UNCHANGED <<op, cur, last, attempt, retries, timeout_s, t0, now>>

----------------------------------------------------------------------------
(* Properties of ocr4all_convert_project_files *)

----------------------------------------------------------------------------
(* ocr4all_get_page_ids *)

(* The body of the pagelist response is a sequence of JSON tokens; a *)
(* token carries its characters: the content of a string literal, the *)
(* digits of a number. *)
Tok(t, v) == [t |-> t, v |-> v]

Punct(t) == Tok(t, <<>>)

ElemTokens ==
    { Tok("str", <<"0", "0", "0", "1">>),
      Tok("str", <<"2">>),
      Tok("int", <<"1", "0">>),
      Tok("int", <<"-", "7">>),
      Tok("null", <<>>),
      Tok("true", <<>>) }

ItemLists == UNION {[1..n -> ElemTokens] : n \in 0..MaxPages}

RECURSIVE Joined(_)
Joined(items) ==
    IF Len(items) = 0 THEN <<>>
    ELSE IF Len(items) = 1 THEN items
    ELSE <<Head(items), Punct(",")>> \o Joined(Tail(items))

(* the text of a JSON array of the given elements *)
ArrayText(items) == <<Punct("[")>> \o Joined(items) \o <<Punct("]")>>

ArrayBodies == {ArrayText(items) : items \in ItemLists}

(* JSON texts that are not arrays: an object and bare scalars *)
NonArrayBodies ==
    {<<Punct("{"), Punct("}")>>} \cup {<<e>> : e \in ElemTokens}

(* texts that are not JSON: empty, HTML, unbalanced or malformed arrays *)
NotJsonBodies ==
    { <<>>,
      <<Punct("<")>>,
      <<Punct("["), Tok("str", <<"2">>)>>,
      <<Punct("["), Tok("str", <<"2">>), Punct(","), Punct("]")>>,
      <<Punct("["), Tok("str", <<"2">>), Tok("null", <<>>), Punct("]")>>,
      <<Punct("["), Punct(","), Punct("]")>> }

PagelistBodies == ArrayBodies \cup NonArrayBodies \cup NotJsonBodies

Digits == <<"0", "1", "2", "3", "4", "5", "6", "7", "8", "9">>

DigitValue(c) == (CHOOSE k \in 1..10 : Digits[k] = c) - 1

RECURSIVE NatOfDigits(_)
NatOfDigits(ds) ==
    IF ds = <<>> THEN 0
    ELSE 10 * NatOfDigits(SubSeq(ds, 1, Len(ds) - 1)) + DigitValue(ds[Len(ds)])

(* the int a JSON number literal denotes *)
IntOfLiteral(v) ==
    IF Head(v) = "-" THEN 0 - NatOfDigits(Tail(v)) ELSE NatOfDigits(v)

RECURSIVE DigitsOfNat(_)
DigitsOfNat(n) ==
    IF n < 10 THEN <<Digits[n + 1]>>
    ELSE DigitsOfNat(n \div 10) \o <<Digits[(n % 10) + 1]>>

(* Python values *)
PyStr(v) == [t |-> "str", s |-> v, n |-> 0, items |-> <<>>]
PyInt(k) == [t |-> "int", s |-> <<>>, n |-> k, items |-> <<>>]
PyNone == [t |-> "NoneType", s |-> <<>>, n |-> 0, items |-> <<>>]
PyTrue == [t |-> "bool", s |-> <<>>, n |-> 1, items |-> <<>>]
PyDict == [t |-> "dict", s |-> <<>>, n |-> 0, items |-> <<>>]
PyList(xs) == [t |-> "list", s |-> <<>>, n |-> 0, items |-> xs]

IsScalarToken(tok) == tok.t \in {"str", "int", "null", "true"}

ScalarValue(tok) ==
    CASE tok.t = "str" -> PyStr(tok.v)
      [] tok.t = "int" -> PyInt(IntOfLiteral(tok.v))
      [] tok.t = "null" -> PyNone
      [] OTHER -> PyTrue

(* r.json(): ok is FALSE when the text is not JSON (json() raises) *)
ParseJson(toks) ==
    LET n == Len(toks)
        inner == SubSeq(toks, 2, n - 1)
        m == n - 2
    IN  IF n = 1 /\ IsScalarToken(toks[1])
        THEN [ok |-> TRUE, val |-> ScalarValue(toks[1])]
        ELSE IF n = 2 /\ toks[1].t = "{" /\ toks[2].t = "}"
        THEN [ok |-> TRUE, val |-> PyDict]
        ELSE IF n >= 2 /\ toks[1].t = "[" /\ toks[n].t = "]"
                /\ (m = 0 \/ m % 2 = 1)
                /\ \A i \in 1..m :
                      IF i % 2 = 1 THEN IsScalarToken(inner[i])
                      ELSE inner[i].t = ","
        THEN [ok |-> TRUE,
              val |-> PyList([k \in 1..((m + 1) \div 2) |->
                                 ScalarValue(inner[2 * k - 1])])]
        ELSE [ok |-> FALSE, val |-> PyNone]

(* str(x) *)
Str(x) ==
    CASE x.t = "str" -> x.s
      [] x.t = "int" ->
            IF x.n < 0 THEN <<"-">> \o DigitsOfNat(0 - x.n)
            ELSE DigitsOfNat(x.n)
      [] x.t = "NoneType" -> <<"N", "o", "n", "e">>
      [] x.t = "bool" -> <<"T", "r", "u", "e">>
      [] OTHER -> <<"?">>

PageIdsReversed(data) ==
    [i \in 1..Len(data.items) |->
        Str(data.items[Len(data.items) + 1 - i])]

(* return [str(x) for x in data] *)
PageIds(data) == [i \in 1..Len(data.items) |-> Str(data.items[i])]

CallGetPageIds ==
    /\ pc = "idle"
    /\ op' = "get_page_ids"
    /\ Goto("pg_get")
    /\ UNCHANGED <<r, cur, last, attempt, retries, timeout_s, t0, now,
                   log, logger, result>>

(* the GET, raise_for_status, r.json(), the isinstance test, the return *)
GetPageIds ==
    /\ op = "get_page_ids" /\ pc = "pg_get"
    /\ \E resp \in Responses(PagelistBodies) :
        /\ log' = Append(log, Event("pagelist", resp))
        /\ r' = IF RaiseTransport(resp) # "none" THEN r ELSE resp
        /\ IF RaiseForStatus(resp) # "none"
           THEN Raise(RaiseForStatus(resp), "pagelist") /\ result' = result
           ELSE IF ~ParseJson(resp.text).ok
           THEN Raise("RuntimeError", "pagelist did not return JSON")
                /\ result' = result
           ELSE IF ParseJson(resp.text).val.t # "list"
           THEN Raise("RuntimeError", "Unexpected pagelist payload")
                /\ result' = result
           ELSE Return(PageIds(ParseJson(resp.text).val))
    /\ UNCHANGED <<op, cur, last, attempt, retries, timeout_s, t0, now,
                   logger>>

----------------------------------------------------------------------------
(* Properties of ocr4all_get_page_ids *)

(* the characters Python shows for the element a token denotes *)
Shown(tok) ==
    CASE tok.t \in {"str", "int"} -> tok.v
      [] tok.t = "null" -> <<"N", "o", "n", "e">>
      [] OTHER -> <<"T", "r", "u", "e">>

PageIdsAnswered ==
    /\ op = "get_page_ids" /\ pc = "done"
    /\ log[1].resp.kind = "http"
    /\ log[1].resp.status < 400

(* C10: the call returns exactly the stringified elements of the JSON *)
(* array of the response, same length and same order; a response that is *)
(* JSON but not an array, or not JSON at all, raises instead. *)
C10_PageIdsAreTheArray ==
    PageIdsAnswered =>
        LET body == log[1].resp.text IN
        /\ \A items \in ItemLists :
              body = ArrayText(items) =>
                  /\ outcome = "return"
                  /\ Len(result) = Len(items)
                  /\ \A i \in 1..Len(items) : result[i] = Shown(items[i])
        /\ body \in NonArrayBodies \cup NotJsonBodies =>
              outcome = "RuntimeError"
        /\ outcome = "return" => body \in ArrayBodies

(* an array of two different elements came back in order *)
C10_Witness ==
    /\ PageIdsAnswered
    /\ outcome = "return"
    /\ result = << <<"0", "0", "0", "1">>, <<"-", "7">> >>

----------------------------------------------------------------------------
(* ocr4all_threads *)

TxtFour == <<"4">>
TxtTwelvePadded == <<" ", "1", "2", "\n">>
TxtPlusSeven == <<"+", "7">>
TxtZero == <<"0">>
TxtMinusThree == <<"-", "3">>
TxtDecimal == <<"4", ".", "5">>

ThreadsBodies ==
    {TxtFour, TxtTwelvePadded, TxtPlusSeven, TxtZero, TxtMinusThree,
     TxtDecimal, TxtEmpty, TxtBlank, TxtStepA}

IsDigits(s) ==
    /\ s # <<>>
    /\ \A i \in 1..Len(s) : \E k \in 1..10 : Digits[k] = s[i]

(* int(text): ok is FALSE when int() raises ValueError *)
ParseInt(s) ==
    LET t == Strip(s)
        signed == t # <<>> /\ Head(t) \in {"+", "-"}
        ds == IF signed THEN Tail(t) ELSE t
    IN  IF IsDigits(ds)
        THEN [ok |-> TRUE,
              n |-> IF signed /\ Head(t) = "-"
                    THEN 0 - NatOfDigits(ds) ELSE NatOfDigits(ds)]
        ELSE [ok |-> FALSE, n |-> 0]

Max(a, b) == IF a >= b THEN a ELSE b

ThreadsUnclamped(body) ==
    IF ParseInt(Strip(body)).ok THEN ParseInt(Strip(body)).n ELSE 1

(* try: return max(1, int(r.text.strip())) except Exception: return 1 *)
Threads(body) ==
    IF ParseInt(Strip(body)).ok
    THEN Max(1, ParseInt(Strip(body)).n)
    ELSE 1

CallThreads ==
    /\ pc = "idle"
    /\ op' = "threads"
    /\ Goto("th_get")
    /\ UNCHANGED <<r, cur, last, attempt, retries, timeout_s, t0, now,
                   log, logger, result>>

(* the GET, raise_for_status and the guarded parse *)
GetThreads ==
    /\ op = "threads" /\ pc = "th_get"
    /\ \E resp \in Responses(ThreadsBodies) :
        /\ log' = Append(log, Event("threads", resp))
        /\ r' = IF RaiseTransport(resp) # "none" THEN r ELSE resp
        /\ IF RaiseForStatus(resp) # "none"
           THEN Raise(RaiseForStatus(resp), "threads") /\ result' = result
           ELSE Return(Threads(resp.text))
    /\ UNCHANGED <<op, cur, last, attempt, retries, timeout_s, t0, now,
                   logger>>

----------------------------------------------------------------------------
(* Properties of ocr4all_threads *)

ThreadsAnswered ==
    /\ op = "threads" /\ pc = "done"
    /\ log[1].resp.kind = "http"
    /\ log[1].resp.status < 400

(* C11: the call returns n when the trimmed response text is a positive *)
(* integer n, returns 1 without raising when the text does not parse as *)
(* an integer (empty, blank, non-numeric, decimal), and for every *)
(* successful HTTP response the result is an integer >= 1. *)
C11_ThreadsParsedOrOne ==
    ThreadsAnswered =>
        LET body == log[1].resp.text IN
        /\ outcome = "return"
        /\ result \in Nat /\ result >= 1
        /\ body = TxtFour => result = 4
        /\ body = TxtTwelvePadded => result = 12
        /\ body = TxtPlusSeven => result = 7
        /\ body \in {TxtEmpty, TxtBlank, TxtStepA, TxtDecimal} => result = 1

(* a padded two-digit count was parsed *)
C11_Witness ==
    /\ ThreadsAnswered
    /\ log[1].resp.text = TxtTwelvePadded
    /\ result = 12

----------------------------------------------------------------------------
(* ocr4all_processflow_execute *)

ExecuteFailedOnErrorStatus(resp) == resp.status >= 400

(* if r.status_code != 200: *)
ExecuteFailed(resp) == resp.status # 200

CallExecute ==
    /\ pc = "idle"
    /\ op' = "execute"
    /\ Goto("ex_post")
    /\ UNCHANGED <<r, cur, last, attempt, retries, timeout_s, t0, now,
                   log, logger, result>>

(* r = session.post(...) and the test of the status *)
ExecutePost ==
    /\ op = "execute" /\ pc = "ex_post"
    /\ \E resp \in Responses(ExecuteBodies) :
        /\ log' = Append(log, Event("execute", resp))
        /\ r' = IF RaiseTransport(resp) # "none" THEN r ELSE resp
        /\ IF RaiseTransport(resp) # "none"
           THEN Raise(RaiseTransport(resp), "execute") /\ result' = result
           ELSE IF ExecuteFailed(resp)
           THEN Raise("RuntimeError", "execute") /\ result' = result
           ELSE Return(<<"None">>)
    /\ UNCHANGED <<op, cur, last, attempt, retries, timeout_s, t0, now,
                   logger>>

----------------------------------------------------------------------------
(* Properties of ocr4all_processflow_execute *)

(* C12: the call issues exactly one execute POST, no status poll and no *)
(* second attempt; it returns normally when the status is 200 and raises *)
(* for every other status. *)
C12_ExecuteOnlyOn200 ==
    (op = "execute" /\ pc = "done") =>
        /\ Len(log) = 1
        /\ log[1].ep = "execute"
        /\ Issued("current") = {}
        /\ log[1].resp.kind = "http" =>
              /\ log[1].resp.status = 200 => outcome = "return"
              /\ log[1].resp.status # 200 => outcome = "RuntimeError"
        /\ outcome = "return" =>
              (log[1].resp.kind = "http" /\ log[1].resp.status = 200)

(* a 2xx status other than 200 was refused *)
C12_Witness ==
    /\ op = "execute" /\ pc = "done"
    /\ log[1].resp.kind = "http"
    /\ log[1].resp.status = 204
    /\ outcome = "RuntimeError"

----------------------------------------------------------------------------
(* ocr4all_processflow_current, called on its own *)

CallCurrent ==
    /\ pc = "idle"
    /\ op' = "current"
    /\ Goto("cu_get")
    /\ UNCHANGED <<r, cur, last, attempt, retries, timeout_s, t0, now,
                   log, logger, result>>

GetCurrent ==
    /\ op = "current" /\ pc = "cu_get"
    /\ \E resp \in PollResponses :
        /\ log' = Append(log, Event("current", resp))
        /\ r' = IF RaiseTransport(resp) # "none" THEN r ELSE resp
        /\ IF CurrentRaises(resp) # "none"
           THEN Raise(CurrentRaises(resp), "current") /\ result' = result
           ELSE Return(CurrentValue(resp))
    /\ UNCHANGED <<op, cur, last, attempt, retries, timeout_s, t0, now,
                   logger>>

----------------------------------------------------------------------------
(* ocr4all_checkpdf *)

TxtTrueCapital == <<"T", "r", "u", "e", "\n">>

CheckpdfBodies == {TxtTrue, TxtTrueCapital, TxtFalse, TxtEmpty}

LowerChar(c) ==
    CASE c = "T" -> "t"
      [] c = "R" -> "r"
      [] c = "U" -> "u"
      [] c = "E" -> "e"
      [] OTHER -> c

(* str.lower() *)
Lower(s) == [i \in 1..Len(s) |-> LowerChar(s[i])]

CallCheckpdf ==
    /\ pc = "idle"
    /\ op' = "checkpdf"
    /\ Goto("cp_get")
    /\ UNCHANGED <<r, cur, last, attempt, retries, timeout_s, t0, now,
                   log, logger, result>>

(* return r.text.strip().lower() == "true" *)
GetCheckpdf ==
    /\ op = "checkpdf" /\ pc = "cp_get"
    /\ \E resp \in Responses(CheckpdfBodies) :
        /\ log' = Append(log, Event("checkpdf", resp))
        /\ r' = IF RaiseTransport(resp) # "none" THEN r ELSE resp
        /\ IF RaiseForStatus(resp) # "none"
           THEN Raise(RaiseForStatus(resp), "checkpdf") /\ result' = result
           ELSE Return(Lower(Strip(resp.text)) = TxtTrue)
    /\ UNCHANGED <<op, cur, last, attempt, retries, timeout_s, t0, now,
                   logger>>

----------------------------------------------------------------------------
(* Properties of all operations *)

(* the request logged at i failed: a transport error or a non-2xx status *)
FailedRequest(i) ==
    /\ log[i].ep # "sleep"
    /\ \/ log[i].resp.kind # "http"
       \/ log[i].resp.status \notin 200..299

Failure == pc = "done" /\ outcome \notin {"none", "return"}

StatusChecked ==
    {"root", "checkDir", "validate", "validateProject", "pagelist",
     "threads", "current", "checkpdf", "convertProjectFiles"}

Endpoints == [i \in 1..Len(log) |-> log[i].ep]

(* C15 as stated: a successful open-project call issues exactly three *)
(* GET requests, checkDir, validate, validateProject, and no other. *)
C15_Original ==
    (OpenDone /\ outcome = "return") =>
        Endpoints = <<"checkDir", "validate", "validateProject">>

(* C15 amended: a successful open-project call issues exactly four GET *)
(* requests: the base URL, then checkDir, validate, validateProject. *)
C15_SuccessfulOpenRequests ==
    (OpenDone /\ outcome = "return") =>
        Endpoints = <<"root", "checkDir", "validate", "validateProject">>

(* a successful call whose first request went to the base URL *)
C15_Witness ==
    /\ OpenDone
    /\ outcome = "return"
    /\ log[1].ep = "root"
    /\ log[1].resp.status = 204
    /\ Len(log) = 4

(* C16: in ocr4all_processflow_execute_json every execute POST is *)
(* directly preceded by a status poll that returned the empty string, *)
(* with no other request in between; a busy poll is followed by the *)
(* sleep, never by a POST. *)
C16_PostOnlyAfterIdlePoll ==
    op = "execute_json" =>
        /\ \A i \in Issued("execute") : i > 1 /\ IdlePoll(i - 1)
        /\ \A i \in Issued("current") :
              (BusyPoll(i) /\ i < Len(log)) => log[i + 1].ep = "sleep"
        /\ pc = "ej_post" => (Len(log) > 0 /\ IdlePoll(Len(log)))

(* a second POST, after a failed first one, again had its own idle poll *)
C16_Witness ==
    /\ op = "execute_json"
    /\ Cardinality(Issued("execute")) = 2
    /\ \E i \in Issued("current") : BusyPoll(i)
    /\ log[Len(log)].ep = "execute"

(* the trimmed status the poll logged at i returned *)
StatusAt(i) == RStrip(LStrip(log[i].resp.text))

(* the polls of a wait whose status differs from that of the poll before *)
(* (polls alternate with sleeps in the history); the first poll counts *)
ChangePolls ==
    {i \in Issued("current") :
        PollAnswered(i) /\ (i = 1 \/ StatusAt(i) # StatusAt(i - 2))}

(* C17: ocr4all_processflow_wait logs at a poll exactly when the polled *)
(* status differs from the status of the previous poll of the call, the *)
(* first poll always logging: the log entries are the statuses of those *)
(* polls in order, one entry for a run of identical statuses. *)
C17_LogOnChangeOnly ==
    op = "wait" =>
        /\ Len(logger) = Cardinality(ChangePolls)
        /\ \A i \in ChangePolls :
              logger[Cardinality({j \in ChangePolls : j <= i})]
                  = <<"info", StatusAt(i)>>

(* the same status twice, then another: two entries for three polls *)
C17_Witness ==
    /\ op = "wait"
    /\ Cardinality(Issued("current")) = 3
    /\ PollAnswered(5)
    /\ StatusAt(1) = StatusAt(3)
    /\ StatusAt(5) # StatusAt(3)
    /\ Len(logger) = 2

BusyPolls == {i \in Issued("current") : BusyPoll(i)}

(* C18: in ocr4all_processflow_execute_json a busy poll uses up one of *)
(* the attempts: at most `retries` polls are issued, busy polls and POSTs *)
(* together number at most `retries`, a POST is issued only when one of *)
(* the first `retries` polls is idle, and an idle poll number `retries` *)
(* is followed by exactly one POST. *)
C18_BusyPollConsumesAttempt ==
    op = "execute_json" =>
        /\ Cardinality(Issued("current")) <= retries
        /\ Cardinality(BusyPolls) + Cardinality(Issued("execute")) <= retries
        /\ pc \in {"ej_poll", "ej_post", "ej_sleep"} =>
              attempt = Cardinality(Issued("current"))
                          + (IF pc = "ej_poll" THEN 1 ELSE 0)
        /\ (pc = "done" /\ Cardinality(BusyPolls) = retries) =>
              (Issued("execute") = {} /\ outcome = "RuntimeError")
        /\ \A i \in Issued("current") :
              (pc = "done" /\ IdlePoll(i)
                  /\ Cardinality({j \in Issued("current") : j <= i}) = retries)
                => /\ Len(log) >= i + 1
                   /\ log[i + 1].ep = "execute"
                   /\ {j \in Issued("execute") : j > i} = {i + 1}

(* busy on every poll but the last attempt's, which got its one POST *)
C18_Witness ==
    /\ ExecJsonDone
    /\ retries = MaxRetries
    /\ Cardinality(BusyPolls) = MaxRetries - 1
    /\ Cardinality(Issued("execute")) = 1
    /\ log[Len(log) - 1].ep = "execute"
    /\ outcome = "RuntimeError"

(* C19: ocr4all_processflow_wait tests idle before it tests the *)
(* timeout: every call issues at least one poll, also for timeout_s <= 0; *)
(* an idle poll makes the call return even when the elapsed time already *)
(* exceeds timeout_s; the timeout error follows a busy poll directly. *)
C19_IdleTestedBeforeTimeout ==
    WaitDone =>
        /\ Len(log) >= 1
        /\ log[1].ep = "current"
        /\ log[Len(log)].ep = "current"
        /\ IdlePoll(Len(log)) => outcome = "return"
        /\ outcome = "TimeoutError" => BusyPoll(Len(log))

(* with a negative limit the first poll was idle and the call returned *)
C19_Witness ==
    /\ WaitDone
    /\ timeout_s < 0
    /\ now - t0 > timeout_s
    /\ Len(log) = 1
    /\ IdlePoll(1)
    /\ outcome = "return"

(* C20: every call of ocr4all_processflow_wait terminates: it ends by *)
(* returning at an idle poll, by the timeout error or by the exception *)
(* of a failed poll, after at most timeout_s + 2 polls (one poll for a *)
(* negative timeout_s) even if the status never becomes idle. *)
C20_Safety ==
    op = "wait" =>
        /\ Cardinality(Issued("current"))
              <= (IF timeout_s < 0 THEN 1 ELSE timeout_s + 2)
        /\ pc = "done" =>
              \/ outcome = "return" /\ IdlePoll(Len(log))
              \/ outcome = "TimeoutError" /\ BusyPoll(Len(log))
              \/ /\ outcome \in {"HTTPError"} \cup TransportErrors
                 /\ FailedRequest(Len(log))

C20_WaitTerminates ==
    /\ []C20_Safety
    /\ (op = "wait") ~> (pc = "done")

(* the status stayed busy and the call ended after timeout_s + 2 polls *)
C20_Witness ==
    /\ WaitDone
    /\ timeout_s = MaxTimeout
    /\ AllPollsBusy
    /\ Cardinality(Issued("current")) = MaxTimeout + 2
    /\ outcome = "TimeoutError"

----------------------------------------------------------------------------
Next ==
    \/ CallExecute
    \/ ExecutePost
    \/ CallCurrent
    \/ GetCurrent
    \/ CallCheckpdf
    \/ GetCheckpdf
    \/ CallThreads
    \/ GetThreads
    \/ CallGetPageIds
    \/ GetPageIds
    \/ CallWait
    \/ WaitPoll
    \/ WaitSleep
    \/ CallConvert
    \/ ConvertPost
    \/ CallExecuteJson
    \/ ExecJsonPoll
    \/ ExecJsonPost
    \/ ExecJsonSleep
    \/ ExecJsonExhausted
    \/ CallOpenProject
    \/ OpenRoot
    \/ OpenCheckDir
    \/ OpenValidate
    \/ OpenInvalidateSession
    \/ OpenValidateProject

Spec == Init /\ [][Next]_vars

(* the interpreter keeps executing the call: no step is postponed forever *)
FairSpec == Spec /\ WF_vars(Next)

====
